---- MODULE Spec2Model ----
(***************************************************************************)
(* Article web service (create / list articles over a relational store).   *)
(*                                                                         *)
(* The repository holds two programs over the same `articles` table:       *)
(*   "combined" : main.go   - ArticleService + SQLArticleRepository        *)
(*   "cqrs"     : part_001  - ArticleWriteService / ArticleReadService +   *)
(*                            ArticleWriteRepositoryImpl /                 *)
(*                            ArticleReadRepositoryImpl + ArticleHandler   *)
(* `variant` says which program is running.  Strings are sequences of      *)
(* one-character strings, so that lowercasing and LIKE matching are        *)
(* computed and not assumed.                                               *)
(***************************************************************************)
EXTENDS Integers, Sequences, FiniteSets, TLC

VARIABLES variant, store, nextId, now, workers, okCreates, last

vars == <<variant, store, nextId, now, workers, okCreates, last>>

----------------------------------------------------------------------------
(* Bounds of the model *)

\* most rows the table holds (in-flight creates included)
MaxArticles == 2
\* last value of the wall clock
MaxTime == 1

\* the request-handling goroutines that may run a POST at the same time
Workers == {"w1", "w2"}

Variants == {"combined", "cqrs"}

\* request inputs: two valid commands and one with each field empty
Cmd(a, t, b) == [author |-> a, title |-> t, body |-> b]
Commands ==
  {Cmd(<<"J">>, <<"a", "B">>, <<"d">>),
   Cmd(<<"j", "o">>, <<"c">>, <<"b">>),
   Cmd(<<>>, <<"a", "B">>, <<"d">>),
   Cmd(<<"J">>, <<>>, <<"d">>),
   Cmd(<<"J">>, <<"a", "B">>, <<>>)}

\* no filter, a text filter, a text filter holding a LIKE wildcard, an author
\* filter, both filters
Qry(q, a) == [query |-> q, author |-> a]
Queries ==
  {Qry(<<>>, <<>>),
   Qry(<<"B">>, <<>>),
   Qry(<<"a", "_">>, <<>>),
   Qry(<<>>, <<"j">>),
   Qry(<<"B">>, <<"j">>)}

----------------------------------------------------------------------------
(* Errors: Go's nil, a plain error, an *echo.HTTPError carrying a code *)

Nil == [kind |-> "nil", code |-> 0, msg |-> ""]
PlainError(m) == [kind |-> "error", code |-> 0, msg |-> m]
HTTPError(c) == [kind |-> "http", code |-> c, msg |-> "bind"]

StatusBadRequest == 400
StatusInternalServerError == 500
StatusCreated == 201
StatusOK == 200

\* c.Bind on a malformed body: echo's binder returns an HTTPError carrying 400
BindError == HTTPError(StatusBadRequest)

----------------------------------------------------------------------------
(* Strings *)

\* strings.ToLower / SQL LOWER on one character of the alphabet used here
LowerChar(c) ==
  CASE c = "J" -> "j"
    [] c = "O" -> "o"
    [] c = "B" -> "b"
    [] c = "A" -> "a"
    [] OTHER -> c

ToLower(s) == [i \in 1..Len(s) |-> LowerChar(s[i])]

\* SQL LIKE: % matches any run of characters, _ matches exactly one
RECURSIVE Like(_, _)
Like(s, p) ==
  IF p = <<>> THEN s = <<>>
  ELSE IF Head(p) = "%"
         THEN Like(s, Tail(p)) \/ (s # <<>> /\ Like(Tail(s), p))
       ELSE IF Head(p) = "_"
         THEN s # <<>> /\ Like(Tail(s), Tail(p))
       ELSE s # <<>> /\ Head(s) = Head(p) /\ Like(Tail(s), Tail(p))

----------------------------------------------------------------------------
(* Command validation and article construction *)

\* CreateArticleCommand.Validate (cqrs)
Validate(c) ==
  IF c.author = <<>> THEN PlainError("author is required")
  ELSE IF c.title = <<>> THEN PlainError("title is required")
  ELSE IF c.body = <<>> THEN PlainError("body is required")
  ELSE Nil

\* NewArticle without the time.Now() stamp: Created keeps Go's zero time
NewArticleUnstamped(c, t) ==
  [id |-> 0, author |-> c.author, title |-> c.title, body |-> c.body, created |-> 0]

\* the Article / ArticleWriteModel literal of CreateArticle: ID is Go's zero value
NewArticle(c, t) ==
  [id |-> 0, author |-> c.author, title |-> c.title, body |-> c.body, created |-> t]

\* the check the service makes before building the article
ServiceValidate(v, c) == IF v = "cqrs" THEN Validate(c) ELSE Nil

----------------------------------------------------------------------------
(* The store *)

\* InsertRow as an insert that skips a row whose author, title and body are
\* already in the table
InsertRowDedup(rows, a, id) ==
  IF \E i \in 1..Len(rows) :
       /\ rows[i].author = a.author
       /\ rows[i].title = a.title
       /\ rows[i].body = a.body
    THEN rows
    ELSE Append(rows, [a EXCEPT !.id = id])

\* InsertRow as an upsert on author and title: a row already holding them is
\* overwritten in place by the new article
InsertRowUpsert(rows, a, id) ==
  IF \E i \in 1..Len(rows) : rows[i].author = a.author /\ rows[i].title = a.title
    THEN [i \in 1..Len(rows) |->
            IF rows[i].author = a.author /\ rows[i].title = a.title
              THEN [a EXCEPT !.id = rows[i].id]
              ELSE rows[i]]
    ELSE Append(rows, [a EXCEPT !.id = id])

\* INSERT INTO articles (author, title, body, created) VALUES (...): one new
\* row, its id taken from the table's sequence
InsertRow(rows, a, id) == Append(rows, [a EXCEPT !.id = id])

----------------------------------------------------------------------------
(* SQLArticleRepository.List: the filtered query *)

\* whereClauses: each clause with the placeholder its text names
WhereClauses(q) ==
  (IF q.query # <<>> THEN << [col |-> "text", ph |-> 1] >> ELSE <<>>)
    \o (IF q.author # <<>> THEN << [col |-> "author", ph |-> 2] >> ELSE <<>>)

\* params, appended in the same order
Params(q) ==
  (IF q.query # <<>> THEN << <<"%">> \o ToLower(q.query) \o <<"%">> >> ELSE <<>>)
    \o (IF q.author # <<>> THEN << ToLower(q.author) >> ELSE <<>>)

\* db.Query(queryStr, params...): PostgreSQL accepts the statement only when
\* the placeholders it names are exactly $1..$n for the n arguments bound
StatementOK(clauses, params) ==
  {clauses[i].ph : i \in 1..Len(clauses)} = 1..Len(params)

\* one clause on one row
ClauseHolds(row, clause, params) ==
  IF clause.col = "text"
    THEN \/ Like(ToLower(row.title), params[clause.ph])
         \/ Like(ToLower(row.body), params[clause.ph])
    ELSE ToLower(row.author) = params[clause.ph]

\* WhereHolds with the clauses joined by " OR "
WhereHoldsAny(row, clauses, params) ==
  \/ Len(clauses) = 0
  \/ \E i \in 1..Len(clauses) : ClauseHolds(row, clauses[i], params)

\* "WHERE " + strings.Join(whereClauses, " AND "); no clause, no WHERE
WhereHolds(row, clauses, params) ==
  \A i \in 1..Len(clauses) : ClauseHolds(row, clauses[i], params)

RowsOf(rows) == {rows[i] : i \in 1..Len(rows)}

\* OrderByCreatedDesc without DESC: created never decreases
OrderByCreatedAsc(S) ==
  {r \in [1..Cardinality(S) -> S] :
     /\ \A i, j \in 1..Cardinality(S) : i # j => r[i] # r[j]
     /\ \A i, j \in 1..Cardinality(S) : i < j => r[i].created <= r[j].created}

\* ORDER BY created DESC: every order of the rows in which created never
\* increases (rows with equal created come in any order)
OrderByCreatedDesc(S) ==
  {r \in [1..Cardinality(S) -> S] :
     /\ \A i, j \in 1..Cardinality(S) : i # j => r[i] # r[j]
     /\ \A i, j \in 1..Cardinality(S) : i < j => r[i].created >= r[j].created}

Failure(m) == [articles |-> <<>>, isNil |-> TRUE, err |-> PlainError(m)]
Success(r) == [articles |-> r, isNil |-> FALSE, err |-> Nil]

\* the outcomes of List(query) on the table `rows`
List(rows, q, dbOk) ==
  IF ~dbOk \/ ~StatementOK(WhereClauses(q), Params(q))
    THEN {Failure("query failed")}
    ELSE {Success(r) : r \in OrderByCreatedDesc(
            {row \in RowsOf(rows) : WhereHolds(row, WhereClauses(q), Params(q))})}

----------------------------------------------------------------------------
(* ArticleReadRepositoryImpl.GetAll *)

\* rows.Scan of the timestamp column into ArticleReadModel.Created (a string)
FormatTime(t) == ToString(t)

ReadModel(row) == [row EXCEPT !.created = FormatTime(row.created)]

\* the outcomes of GetAll() on the table `rows`
GetAll(rows, dbOk) ==
  IF ~dbOk
    THEN {Failure("query failed")}
    ELSE {Success([i \in 1..Len(r) |-> ReadModel(r[i])]) :
            r \in OrderByCreatedDesc(RowsOf(rows))}

----------------------------------------------------------------------------
(* HTTP layer *)

\* ErrorHandler / e.HTTPErrorHandler: the status of an error a handler returned
ErrorHandler(err) ==
  IF err.kind = "http" THEN err.code ELSE StatusInternalServerError

NoCommand == [author |-> <<>>, title |-> <<>>, body |-> <<>>]
NoQuery == [query |-> <<>>, author |-> <<>>]

IdleWorker == [pc |-> "idle", command |-> NoCommand,
               article |-> NewArticle(NoCommand, 0), start |-> 0]

\* `last` is the response sent by the step just taken, with what the request
\* did on the way; NoResponse when the step sent none
NoResponse ==
  [op |-> "none", bound |-> FALSE, command |-> NoCommand, query |-> NoQuery,
   status |-> 0, svcErr |-> Nil, createCalls |-> 0, inserted |-> 0,
   article |-> NewArticle(NoCommand, 0), rowId |-> 0, start |-> 0, ret |-> 0,
   listCalls |-> 0, repoQuery |-> NoQuery, repoOutcome |-> Success(<<>>),
   svcOutcome |-> Success(<<>>), dbOk |-> TRUE]

InFlight == Cardinality({w \in Workers : workers[w].pc # "idle"})

Init ==
  /\ variant \in Variants
  /\ store = <<>>
  /\ nextId = 1
  /\ now = 0
  /\ workers = [w \in Workers |-> IdleWorker]
  /\ okCreates = 0
  /\ last = NoResponse

\* the wall clock advances
Tick ==
  /\ now < MaxTime
  /\ now' = now + 1
  /\ last' = NoResponse
  /\ UNCHANGED <<variant, store, nextId, workers, okCreates>>

\* POST /articles, up to c.Bind: the handler starts and binds the body
PostBind(w) ==
  /\ workers[w].pc = "idle"
  /\ \/ /\ Len(store) + InFlight < MaxArticles
        /\ \E c \in Commands :
             workers' = [workers EXCEPT ![w] =
                           [IdleWorker EXCEPT !.pc = "bound", !.command = c, !.start = now]]
        /\ last' = NoResponse
     \/ /\ last' = [NoResponse EXCEPT
                        !.op = "post", !.start = now, !.ret = now,
                        !.svcErr = BindError,
                        !.status = IF variant = "cqrs" THEN StatusBadRequest
                                   ELSE ErrorHandler(BindError)]
        /\ UNCHANGED workers
  /\ UNCHANGED <<variant, store, nextId, now, okCreates>>

\* the response to a POST whose service call returned err
PostResponse(w, err, calls, ins, art, id) ==
  [NoResponse EXCEPT
     !.op = "post", !.bound = TRUE, !.command = workers[w].command,
     !.start = workers[w].start, !.ret = now, !.svcErr = err,
     !.createCalls = calls, !.inserted = ins, !.article = art, !.rowId = id,
     !.status = IF err = Nil THEN StatusCreated
                ELSE IF variant = "cqrs" THEN StatusInternalServerError
                ELSE ErrorHandler(err)]

\* CreateArticle up to the repository call: validate (cqrs), build the article
CreateArticle(w) ==
  /\ workers[w].pc = "bound"
  /\ IF ServiceValidate(variant, workers[w].command) # Nil
       THEN /\ last' = PostResponse(w, ServiceValidate(variant, workers[w].command),
                                    0, 0, workers[w].article, 0)
            /\ workers' = [workers EXCEPT ![w] = IdleWorker]
       ELSE /\ workers' = [workers EXCEPT ![w].pc = "built",
                             ![w].article = NewArticle(workers[w].command, now)]
            /\ last' = NoResponse
  /\ UNCHANGED <<variant, store, nextId, now, okCreates>>

\* the article object after a successful Create: Scan(&article.ID) in the
\* combined program, untouched in the cqrs one (Exec, no RETURNING)
AfterCreate(v, a, id) == IF v = "combined" THEN [a EXCEPT !.id = id] ELSE a

\* repo.Create and the rest of the request: the INSERT, then the response
RepoCreate(w) ==
  /\ workers[w].pc = "built"
  /\ \E dbOk \in BOOLEAN :
       IF dbOk
         THEN /\ store' = InsertRow(store, workers[w].article, nextId)
              /\ nextId' = nextId + 1
              /\ okCreates' = okCreates + 1
              /\ last' = PostResponse(w, Nil, 1, Len(store') - Len(store),
                            AfterCreate(variant, workers[w].article, nextId), nextId)
         ELSE /\ last' = PostResponse(w, PlainError("insert failed"), 1, 0,
                            workers[w].article, 0)
              /\ UNCHANGED <<store, nextId, okCreates>>
  /\ workers' = [workers EXCEPT ![w] = IdleWorker]
  /\ UNCHANGED <<variant, now>>

\* the response to a GET whose service call returned `out`
GetResponse(q, calls, rq, out, dbOk) ==
  [NoResponse EXCEPT
     !.op = "get", !.bound = TRUE, !.query = q, !.start = now, !.ret = now,
     !.listCalls = calls, !.repoQuery = rq, !.repoOutcome = out,
     !.svcOutcome = IF out.err # Nil THEN Failure(out.err.msg) ELSE Success(out.articles),
     !.svcErr = out.err, !.dbOk = dbOk,
     !.status = IF out.err = Nil THEN StatusOK
                ELSE IF variant = "cqrs" THEN StatusInternalServerError
                ELSE ErrorHandler(out.err)]

\* GET /articles: one request, from the query parameters to the response
GetArticles ==
  /\ \E q \in Queries, dbOk \in BOOLEAN :
       IF variant = "combined"
         THEN \E out \in List(store, q, dbOk) : last' = GetResponse(q, 1, q, out, dbOk)
         ELSE \/ \E out \in GetAll(store, dbOk) : last' = GetResponse(q, 1, NoQuery, out, dbOk)
              \/ last' = [NoResponse EXCEPT !.op = "get", !.start = now, !.ret = now,
                                            !.query = q, !.svcErr = BindError,
                                            !.status = StatusBadRequest]
  /\ UNCHANGED <<variant, store, nextId, now, workers, okCreates>>

Next ==
  \/ Tick
  \/ \E w \in Workers : PostBind(w)
  \/ \E w \in Workers : CreateArticle(w)
  \/ \E w \in Workers : RepoCreate(w)
  \/ GetArticles

Spec == Init /\ [][Next]_vars

----------------------------------------------------------------------------
(* Properties *)

HasEmptyField(c) == c.author = <<>> \/ c.title = <<>> \/ c.body = <<>>

ValidationMessages == {"author is required", "title is required", "body is required"}

\* sub occurs in s as a run of consecutive characters
Contains(s, sub) ==
  \E k \in 0..(Len(s) - Len(sub)) : SubSeq(s, k + 1, k + Len(sub)) = sub

\* the articles a response carries, and their ids
Returned == last.svcOutcome.articles
ReturnedIds == {Returned[i].id : i \in 1..Len(Returned)}
IdsOf(S) == {row.id : row \in S}

\* the stored row with a given id
StoredRow(id) == CHOOSE row \in RowsOf(store) : row.id = id

\* a GET that reached the repository while the database was answering
ListAnswered == last.op = "get" /\ last.bound /\ last.dbOk

\* the stored articles an author filter / a text filter is meant to select
AuthorMatches(a) == {row \in RowsOf(store) : ToLower(row.author) = ToLower(a)}
TextMatches(q) ==
  {row \in RowsOf(store) :
     \/ Contains(ToLower(row.title), ToLower(q))
     \/ Contains(ToLower(row.body), ToLower(q))}

\* C1: a command with an empty author, title or body is refused with a
\* validation error, the repository's Create is never called and no row is
\* stored.
C1_InvalidCommandRejected ==
  (last.op = "post" /\ last.bound /\ HasEmptyField(last.command))
    => /\ last.svcErr.msg \in ValidationMessages
       /\ last.createCalls = 0
       /\ last.inserted = 0

\* C2: with a non-empty author filter List succeeds and returns only stored
\* articles whose lowercased author equals the lowercased filter, and all of
\* them when there is no text filter.
C2_AuthorFilter ==
  (variant = "combined" /\ ListAnswered /\ last.query.author # <<>>)
    => /\ last.svcOutcome.err = Nil
       /\ ReturnedIds \subseteq IdsOf(AuthorMatches(last.query.author))
       /\ last.query.query = <<>>
            => ReturnedIds = IdsOf(AuthorMatches(last.query.author))

\* C3: with a non-empty text filter List returns only stored articles whose
\* lowercased title or body contains the lowercased filter as a substring, and
\* all of them when there is no author filter.
C3_TextFilter ==
  (variant = "combined" /\ ListAnswered /\ last.query.query # <<>>
     /\ last.svcOutcome.err = Nil)
    => /\ ReturnedIds \subseteq IdsOf(TextMatches(last.query.query))
       /\ last.query.author = <<>>
            => ReturnedIds = IdsOf(TextMatches(last.query.query))

\* C4: with no filter the list operation returns every stored article exactly
\* once, and no returned article is followed by one created strictly later.
C4_ListAllOrdered ==
  (ListAnswered /\ last.query = NoQuery)
    => /\ last.svcOutcome.err = Nil
       /\ last.status = StatusOK
       /\ Len(Returned) = Len(store)
       /\ ReturnedIds = IdsOf(RowsOf(store))
       /\ \A i \in 1..Len(Returned) :
            /\ Returned[i].author = StoredRow(Returned[i].id).author
            /\ Returned[i].title = StoredRow(Returned[i].id).title
            /\ Returned[i].body = StoredRow(Returned[i].id).body
       /\ \A i, j \in 1..Len(Returned) :
            i < j => StoredRow(Returned[i].id).created
                       >= StoredRow(Returned[j].id).created

\* an unfiltered list of two articles, the later-inserted one created later
\* and so returned first
C4_Witness ==
  /\ ListAnswered /\ last.query = NoQuery
  /\ Len(Returned) = 2
  /\ Returned[1].id > Returned[2].id
  /\ StoredRow(Returned[1].id).created > StoredRow(Returned[2].id).created

\* the articles List returns for the text filter alone
TextOnlyIds(q) ==
  UNION {{out.articles[i].id : i \in 1..Len(out.articles)} :
           out \in List(store, Qry(q, <<>>), TRUE)}

\* C5: with both filters List returns exactly the articles that the text
\* filter alone returns and whose author matches the author filter.
C5_BothFilters ==
  (variant = "combined" /\ ListAnswered
     /\ last.query.query # <<>> /\ last.query.author # <<>>)
    => /\ last.svcOutcome.err = Nil
       /\ ReturnedIds = TextOnlyIds(last.query.query)
                          \cap IdsOf(AuthorMatches(last.query.author))

\* both filters given, one article returned and another one left out that
\* the text filter alone returns
C5_Witness ==
  /\ variant = "combined" /\ ListAnswered
  /\ last.query.query # <<>> /\ last.query.author # <<>>
  /\ Cardinality(ReturnedIds) = 1
  /\ TextOnlyIds(last.query.query) \ ReturnedIds # {}

\* a POST whose command reached the repository and whose Create did not fail
CreateSucceeded ==
  last.op = "post" /\ last.bound /\ last.createCalls = 1 /\ last.svcErr = Nil

\* C6: a valid command with a repository that does not fail calls Create
\* once and appends one article with the command's author, title and body,
\* created between the start of the invocation and its return.
C6_ValidCreate ==
  (last.op = "post" /\ last.bound /\ ~HasEmptyField(last.command)
     /\ ~(last.createCalls = 1 /\ last.svcErr # Nil))
    => /\ last.createCalls = 1
       /\ last.svcErr = Nil
       /\ last.inserted = 1
       /\ store # <<>>
       /\ store[Len(store)].id = last.rowId
       /\ store[Len(store)].author = last.command.author
       /\ store[Len(store)].title = last.command.title
       /\ store[Len(store)].body = last.command.body
       /\ last.start <= store[Len(store)].created
       /\ store[Len(store)].created <= last.ret

\* a valid command stored by a request that began before the clock last moved
C6_Witness ==
  /\ CreateSucceeded /\ ~HasEmptyField(last.command)
  /\ last.start < last.ret
  /\ store[Len(store)].id = last.rowId

\* C7: every stored article has a non-empty author, title and body.
C7_StoredNonEmpty ==
  \A i \in 1..Len(store) :
    store[i].author # <<>> /\ store[i].title # <<>> /\ store[i].body # <<>>

\* C8: POST /articles answers 400 when the body cannot be bound, 500 when
\* validation or the repository's Create fails, and 201 only when the command
\* passed validation and one article was stored.
C8_PostStatus ==
  last.op = "post"
    => /\ ~last.bound => last.status = StatusBadRequest
       /\ (last.bound /\ (Validate(last.command) # Nil \/ last.svcErr # Nil))
            => last.status = StatusInternalServerError
       /\ last.status = StatusCreated
            => Validate(last.command) = Nil /\ last.inserted = 1

\* C9: GetArticles calls the repository's list operation with the caller's
\* query and returns the repository's outcome.
C9_GetArticlesPassThrough ==
  (last.op = "get" /\ last.bound)
    => /\ last.listCalls = 1
       /\ last.repoQuery = last.query
       /\ last.svcOutcome = last.repoOutcome

\* C10: every successful create stores a row of its own: the table holds as
\* many rows as there were successful creates, each with a distinct id.
C10_DistinctRows ==
  /\ Len(store) = okCreates
  /\ \A i, j \in 1..Len(store) : i # j => store[i].id # store[j].id

\* two overlapping requests with the same author, title and body both
\* stored: the row inserted second was built before the row inserted first
C10_Witness ==
  /\ Len(store) = 2
  /\ okCreates = 2
  /\ store[1].author = store[2].author
  /\ store[1].title = store[2].title
  /\ store[1].body = store[2].body
  /\ store[1].created > store[2].created

\* C11: after a successful Create the article object the service passed
\* carries the id the store gave the new row, and the row's created value is
\* the one the service set.
C11_IdWrittenBack ==
  CreateSucceeded
    => /\ store # <<>>
       /\ store[Len(store)].id = last.rowId
       /\ last.article.id = last.rowId
       /\ store[Len(store)].created = last.article.created

\* C12: a stored article stays in the table with the same id, author, title,
\* body and created in every later state, and a list request leaves the whole
\* table unchanged.
C12_ArticlesImmutable ==
  [][/\ Len(store') >= Len(store)
     /\ \A i \in 1..Len(store) : store'[i] = store[i]
     /\ last'.op = "get" => store' = store]_vars

\* a table of two articles, the first kept through the second create, just
\* listed
C12_Witness ==
  /\ Len(store) = 2
  /\ last.op = "get" /\ last.bound /\ last.svcOutcome.err = Nil
  /\ Len(Returned) = 2

====
